---- MODULE Spec2Model ----
(***************************************************************************)
(* A model of the asleepace/sql query builder (src/src/index.ts):          *)
(* QueryBuilder mutating a QueryAST, the condition factory, and            *)
(* SQLCompiler turning a QueryAST into { sql, params }.                    *)
(*                                                                         *)
(* Representation.                                                         *)
(*  - A JavaScript value is a record [kind, s, items]: a scalar carries    *)
(*    its printed form in s, an array carries its elements in items.       *)
(*  - SQL text is a sequence of tokens [lit, ord]: ord = 0 is the literal  *)
(*    text lit, ord = n > 0 is the placeholder "$n".  Text(sql) is the     *)
(*    string the code returns.                                             *)
(*  - Every builder owns exactly one QueryAST object for its whole life    *)
(*    (this.ast is assigned in the constructor only), so an AST reference  *)
(*    is the id of the builder that owns it; ast is the heap.              *)
(*  - An optional field (limit?: number) is <<>> when undefined and <<v>>  *)
(*    when set.                                                            *)
(***************************************************************************)
EXTENDS Integers, Sequences, FiniteSets, TLC

VARIABLES
    ast,        \* heap: builder id -> its QueryAST
    result,     \* what the latest toSQL() returned; NoResult once a builder operation ran
    calls,      \* consecutive toSQL() calls on result.b with no builder operation between
    err,        \* message of the Error the latest operation threw, "" when it returned
    whereLog,   \* history: per builder, the argument list of every where() call, in call order
    ops,        \* number of builder operations that returned
    callLog,    \* history: per builder and kind of operation other than where, the
                \* arguments of every call that returned, in call order
    view        \* the structure the latest getAST() returned: ref is the builder whose
                \* QueryAST it is (0 before any call), writes counts the caller's
                \* assignments through returned structures

vars == <<ast, result, calls, err, whereLog, ops, callLog, view>>

----------------------------------------------------------------------------
(* Bounds *)

MaxOps == 3

MaxNodes == 5

MaxItems == 2

\* assignments a caller makes through the structures getAST() returned
MaxWrites == 1

----------------------------------------------------------------------------
(* Generic helpers *)

RECURSIVE Flatten(_)
Flatten(ss) == IF ss = <<>> THEN <<>> ELSE Head(ss) \o Flatten(Tail(ss))

RECURSIVE Concat(_)
Concat(strs) == IF strs = <<>> THEN "" ELSE Head(strs) \o Concat(Tail(strs))

Lit(s) == [lit |-> s, ord |-> 0]

Placeholder(n) == [lit |-> "$", ord |-> n]

TokenText(t) == IF t.ord = 0 THEN t.lit ELSE t.lit \o ToString(t.ord)

Text(sql) == Concat([i \in 1..Len(sql) |-> TokenText(sql[i])])

\* Array.prototype.join on an array of text fragments
RECURSIVE join(_, _)
join(parts, sep) ==
    IF parts = <<>> THEN <<>>
    ELSE IF Len(parts) = 1 THEN parts[1]
    ELSE parts[1] \o <<Lit(sep)>> \o join(Tail(parts), sep)

\* Array.prototype.join on an array of strings
joinNames(names, sep) == join([i \in 1..Len(names) |-> <<Lit(names[i])>>], sep)

----------------------------------------------------------------------------
(* JavaScript values *)

Scalar(s) == [kind |-> "scalar", s |-> s, items |-> <<>>]

Array(xs) == [kind |-> "array", s |-> "", items |-> xs]

Undefined == [kind |-> "undefined", s |-> "", items |-> <<>>]

----------------------------------------------------------------------------
(* Condition factory: createConditions *)

Cond(field, op, value) ==
    [type |-> "condition", field |-> field, op |-> op, value |-> value, children |-> <<>>]

eq(field, value) == Cond(field, "=", Scalar(value))

ne(field, value) == Cond(field, "!=", Scalar(value))

gt(field, value) == Cond(field, ">", Scalar(value))

lt(field, value) == Cond(field, "<", Scalar(value))

gte(field, value) == Cond(field, ">=", Scalar(value))

lte(field, value) == Cond(field, "<=", Scalar(value))

like(field, pattern) == Cond(field, "LIKE", Scalar(pattern))

in(field, values) ==
    Cond(field, "IN", Array([i \in 1..Len(values) |-> Scalar(values[i])]))

isNull(field) == Cond(field, "IS NULL", Undefined)

isNotNull(field) == Cond(field, "IS NOT NULL", Undefined)

Composite(type, conditions) ==
    [type |-> type, field |-> "", op |-> "", value |-> Undefined, children |-> conditions]

and(conditions) == Composite("AND", conditions)

or(conditions) == Composite("OR", conditions)

not(condition) == Composite("NOT", <<condition>>)

----------------------------------------------------------------------------
(* SQLCompiler: the instance fields and predicate compilation *)

\* private params: any[] = [] ; private paramIndex = 1
NewSQLCompiler == [params |-> <<>>, paramIndex |-> 1]

\* compileCondition with `$${++this.paramIndex}` in place of `$${this.paramIndex++}`
compileCondition_preIncrement(self, node) ==
    IF node.op = "IS NULL" \/ node.op = "IS NOT NULL"
    THEN [sql |-> <<Lit(node.field), Lit(" "), Lit(node.op)>>, self |-> self]
    ELSE IF node.op = "IN"
    THEN LET k == Len(node.value.items)
             placeholders == [i \in 1..k |-> <<Placeholder(self.paramIndex + i)>>]
         IN  [sql  |-> <<Lit(node.field), Lit(" IN (")>> \o join(placeholders, ", ")
                         \o <<Lit(")")>>,
              self |-> [params     |-> self.params \o node.value.items,
                        paramIndex |-> self.paramIndex + k]]
    ELSE [sql  |-> <<Lit(node.field), Lit(" "), Lit(node.op), Lit(" "),
                     Placeholder(self.paramIndex + 1)>>,
          self |-> [params     |-> Append(self.params, node.value),
                    paramIndex |-> self.paramIndex + 1]]

\* compileCondition with this.params.push(node.value) for IN: the array as one parameter
compileCondition_pushArray(self, node) ==
    IF node.op = "IS NULL" \/ node.op = "IS NOT NULL"
    THEN [sql |-> <<Lit(node.field), Lit(" "), Lit(node.op)>>, self |-> self]
    ELSE IF node.op = "IN"
    THEN LET k == Len(node.value.items)
             placeholders == [i \in 1..k |-> <<Placeholder(self.paramIndex + i - 1)>>]
         IN  [sql  |-> <<Lit(node.field), Lit(" IN (")>> \o join(placeholders, ", ")
                         \o <<Lit(")")>>,
              self |-> [params     |-> Append(self.params, node.value),
                        paramIndex |-> self.paramIndex + k]]
    ELSE [sql  |-> <<Lit(node.field), Lit(" "), Lit(node.op), Lit(" "),
                     Placeholder(self.paramIndex)>>,
          self |-> [params     |-> Append(self.params, node.value),
                    paramIndex |-> self.paramIndex + 1]]

\* case 'condition' of compileWhereNode: the fragment and the compiler after it
compileCondition(self, node) ==
    IF node.op = "IS NULL" \/ node.op = "IS NOT NULL"
    THEN [sql |-> <<Lit(node.field), Lit(" "), Lit(node.op)>>, self |-> self]
    ELSE IF node.op = "IN"
    THEN LET k == Len(node.value.items)
             placeholders == [i \in 1..k |-> <<Placeholder(self.paramIndex + i - 1)>>]
         IN  [sql  |-> <<Lit(node.field), Lit(" IN (")>> \o join(placeholders, ", ")
                         \o <<Lit(")")>>,
              self |-> [params     |-> self.params \o node.value.items,
                        paramIndex |-> self.paramIndex + k]]
    ELSE [sql  |-> <<Lit(node.field), Lit(" "), Lit(node.op), Lit(" "),
                     Placeholder(self.paramIndex)>>,
          self |-> [params     |-> Append(self.params, node.value),
                    paramIndex |-> self.paramIndex + 1]]

\* nodes.map(n => this.compileWhereNode(n)) : the fragments in order and the
\* compiler after the last one
RECURSIVE compileWhereNode(_, _), mapCompile(_, _)
mapCompile(self, nodes) ==
    IF nodes = <<>> THEN [parts |-> <<>>, self |-> self]
    ELSE LET first == compileWhereNode(self, Head(nodes))
             rest  == mapCompile(first.self, Tail(nodes))
         IN  [parts |-> <<first.sql>> \o rest.parts, self |-> rest.self]

compileWhereNode(self, node) ==
    IF node.type = "condition" THEN compileCondition(self, node)
    ELSE LET kids == mapCompile(self, node.children)
         IN  IF node.type = "AND"
             THEN [sql |-> <<Lit("(")>> \o join(kids.parts, " AND ") \o <<Lit(")")>>,
                   self |-> kids.self]
             ELSE IF node.type = "OR"
             THEN [sql |-> <<Lit("(")>> \o join(kids.parts, " OR ") \o <<Lit(")")>>,
                   self |-> kids.self]
             ELSE IF node.type = "NOT"
             THEN [sql |-> <<Lit("NOT (")>> \o join(kids.parts, " ") \o <<Lit(")")>>,
                   self |-> kids.self]
             ELSE [sql |-> <<>>, self |-> self]

\* compileWhereNodes wrapping the top-level list in parentheses like an And node
compileWhereNodes_parenthesized(self, nodes) ==
    IF Len(nodes) = 0 THEN [sql |-> <<>>, self |-> self]
    ELSE LET m == mapCompile(self, nodes)
         IN  [sql |-> <<Lit("(")>> \o join(m.parts, " AND ") \o <<Lit(")")>>,
              self |-> m.self]

compileWhereNodes(self, nodes) ==
    IF Len(nodes) = 0 THEN [sql |-> <<>>, self |-> self]
    ELSE LET m == mapCompile(self, nodes)
         IN  [sql |-> join(m.parts, " AND "), self |-> m.self]

----------------------------------------------------------------------------
(* Database: the relation list and the builders handed out *)

\* the relations of the test suite, in declaration order
relations ==
    << [from |-> "posts",    to |-> "users", foreignKey |-> "author_id", references |-> "id"],
       [from |-> "comments", to |-> "posts", foreignKey |-> "post_id",   references |-> "id"],
       [from |-> "comments", to |-> "users", foreignKey |-> "user_id",   references |-> "id"] >>

\* the builders of one program: db.table('posts').query(), db.table('users').query()
Builders == {1, 2}

tableOf(b) == IF b = 1 THEN "posts" ELSE "users"

\* QueryBuilder constructor
NewQueryBuilder(table) ==
    [type    |-> "SELECT",
     table   |-> table,
     columns |-> <<>>,
     where   |-> <<>>,
     joins   |-> <<>>,
     orderBy |-> <<>>,
     groupBy |-> <<>>,      \* undefined
     having  |-> <<>>,      \* undefined
     limit   |-> <<>>,      \* undefined
     offset  |-> <<>>,      \* undefined
     with    |-> <<>>]      \* undefined; an array of CTENode once with() ran

----------------------------------------------------------------------------
(* SQLCompiler.compile *)

\* this.params = [] ; this.paramIndex = 1
reset(self) == [params |-> <<>>, paramIndex |-> 1]

\* ast.columns?.join(', ') || '*'
projection(columns) ==
    IF Text(joinNames(columns, ", ")) = "" THEN <<Lit("*")>> ELSE joinNames(columns, ", ")

\* ast.joins.forEach(join => ...)
compileJoins(joins) ==
    Flatten([i \in 1..Len(joins) |->
        << Lit(" "), Lit(joins[i].type), Lit(" JOIN "), Lit(joins[i].table),
           Lit(" ON "), Lit(joins[i].on.left), Lit(" = "), Lit(joins[i].on.right) >>])

\* ast.orderBy.map(o => `${o.column} ${o.direction}`).join(', ')
compileOrderBy(orderBy) ==
    join([i \in 1..Len(orderBy) |->
            <<Lit(orderBy[i].column), Lit(" "), Lit(orderBy[i].direction)>>], ", ")

\* SELECT <projection> FROM <table>
selectClause(q) ==
    <<Lit("SELECT ")>> \o projection(q.columns) \o <<Lit(" FROM "), Lit(q.table)>>

joinClause(q) == IF Len(q.joins) > 0 THEN compileJoins(q.joins) ELSE <<>>

\* whereClause with the test `if (ast.where)`: an empty array is truthy
whereClause_truthy(self, q) ==
    LET w == compileWhereNodes(self, q.where)
    IN  [sql |-> <<Lit(" WHERE ")>> \o w.sql, self |-> w.self]

\* if (ast.where && ast.where.length > 0) sql += ' WHERE ' + compileWhereNodes(...)
whereClause(self, q) ==
    IF Len(q.where) > 0
    THEN LET w == compileWhereNodes(self, q.where)
         IN  [sql |-> <<Lit(" WHERE ")>> \o w.sql, self |-> w.self]
    ELSE [sql |-> <<>>, self |-> self]

groupByClause(q) ==
    IF q.groupBy # <<>> /\ Len(q.groupBy[1]) > 0
    THEN <<Lit(" GROUP BY ")>> \o joinNames(q.groupBy[1], ", ")
    ELSE <<>>

havingClause(self, q) ==
    IF q.having # <<>> /\ Len(q.having[1]) > 0
    THEN LET h == compileWhereNodes(self, q.having[1])
         IN  [sql |-> <<Lit(" HAVING ")>> \o h.sql, self |-> h.self]
    ELSE [sql |-> <<>>, self |-> self]

orderByClause(q) ==
    IF Len(q.orderBy) > 0
    THEN <<Lit(" ORDER BY ")>> \o compileOrderBy(q.orderBy)
    ELSE <<>>

\* limitClause with the test `if (ast.limit)`: 0 is falsy
limitClause_truthy(q) ==
    IF q.limit # <<>> /\ q.limit[1] # 0
    THEN <<Lit(" LIMIT "), Lit(ToString(q.limit[1]))>> ELSE <<>>

limitClause(q) ==
    IF q.limit # <<>> THEN <<Lit(" LIMIT "), Lit(ToString(q.limit[1]))>> ELSE <<>>

offsetClause(q) ==
    IF q.offset # <<>> THEN <<Lit(" OFFSET "), Lit(ToString(q.offset[1]))>> ELSE <<>>

\* The recursion of compile through ast.with follows references in the heap.  A
\* chain of distinct QueryAST objects is at most Cardinality(Builders) long, so a
\* call at depth 0 is on a cycle: the real recursion never returns and ends in
\* RangeError (maximum call stack size exceeded), reported here as overflow.
RECURSIVE compile(_, _, _, _), compileCtes(_, _, _, _)

\* compileCtes with `new SQLCompiler().compile(cte.query)`: every sub-query is
\* compiled by a compiler of its own, whose parameters and counter are dropped
compileCtes_ownCompiler(heap, self, ctes, depth) ==
    IF ctes = <<>> THEN [parts |-> <<>>, self |-> self, overflow |-> FALSE]
    ELSE LET first == compile(heap, NewSQLCompiler, Head(ctes).query, depth)
         IN  IF first.overflow
             THEN [parts |-> <<>>, self |-> self, overflow |-> TRUE]
             ELSE LET rest == compileCtes(heap, self, Tail(ctes), depth)
                      part == <<Lit(Head(ctes).name), Lit(" AS (")>> \o first.sql
                                  \o <<Lit(")")>>
                  IN  [parts    |-> <<part>> \o rest.parts,
                       self     |-> rest.self,
                       overflow |-> rest.overflow]

\* ast.with.map(cte => { const { sql: cteSql } = this.compile(cte.query) ... }):
\* every sub-query is compiled by this same compiler instance
compileCtes(heap, self, ctes, depth) ==
    IF ctes = <<>> THEN [parts |-> <<>>, self |-> self, overflow |-> FALSE]
    ELSE LET first == compile(heap, self, Head(ctes).query, depth)
         IN  IF first.overflow
             THEN [parts |-> <<>>, self |-> first.self, overflow |-> TRUE]
             ELSE LET rest == compileCtes(heap, first.self, Tail(ctes), depth)
                      part == <<Lit(Head(ctes).name), Lit(" AS (")>> \o first.sql
                                  \o <<Lit(")")>>
                  IN  [parts    |-> <<part>> \o rest.parts,
                       self     |-> rest.self,
                       overflow |-> rest.overflow]

compile(heap, self, a, depth) ==
    IF depth = 0 THEN [sql |-> <<>>, params |-> <<>>, self |-> self, overflow |-> TRUE]
    ELSE
    LET q      == heap[a]
        s0     == reset(self)
        ctes   == compileCtes(heap, s0, q.with, depth - 1)
        withs  == IF Len(q.with) > 0
                  THEN <<Lit("WITH ")>> \o join(ctes.parts, ", ") \o <<Lit(" ")>>
                  ELSE <<>>
        s1     == IF Len(q.with) > 0 THEN ctes.self ELSE s0
        w      == whereClause(s1, q)
        h      == havingClause(w.self, q)
    IN  IF Len(q.with) > 0 /\ ctes.overflow
        THEN [sql |-> <<>>, params |-> <<>>, self |-> ctes.self, overflow |-> TRUE]
        ELSE [sql      |-> withs \o selectClause(q) \o joinClause(q) \o w.sql
                               \o groupByClause(q) \o h.sql \o orderByClause(q)
                               \o limitClause(q) \o offsetClause(q),
              params   |-> h.self.params,
              self     |-> h.self,
              overflow |-> FALSE]

----------------------------------------------------------------------------
(* QueryBuilder operations *)

NoResult == [b |-> 0, status |-> "none", sql |-> <<>>, params |-> <<>>]

NoView == [ref |-> 0, writes |-> 0]

\* what every builder operation that returns does to the bookkeeping variables
Returned ==
    /\ result' = NoResult
    /\ calls' = 0
    /\ err' = ""
    /\ ops' = ops + 1
    /\ UNCHANGED view

\* history only: the call of this kind on builder b returned
Logged(b, kind, args) == callLog' = [callLog EXCEPT ![b][kind] = Append(@, args)]

\* select with `this.ast.columns.push(...columns)`
select_push(b, columns) ==
    /\ ast' = [ast EXCEPT ![b].columns = ast[b].columns \o columns]
    /\ Logged(b, "select", columns)
    /\ Returned
    /\ UNCHANGED whereLog

select(b, columns) ==
    /\ ast' = [ast EXCEPT ![b].columns = columns]
    /\ Logged(b, "select", columns)
    /\ Returned
    /\ UNCHANGED whereLog

\* where with `this.ast.where = conditions`
where_replace(b, conditions) ==
    /\ ast' = [ast EXCEPT ![b].where = conditions]
    /\ whereLog' = [whereLog EXCEPT ![b] = Append(whereLog[b], conditions)]
    /\ Returned
    /\ UNCHANGED callLog

where(b, conditions) ==
    /\ ast' = [ast EXCEPT ![b].where = ast[b].where \o conditions]
    /\ whereLog' = [whereLog EXCEPT ![b] = Append(whereLog[b], conditions)]
    /\ Returned
    /\ UNCHANGED callLog

\* this.relations.find(...): index of the first relation between the two tables
\* in either direction, 0 for undefined
findRelation(base, table) ==
    LET matches == {i \in 1..Len(relations) :
                       \/ relations[i].from = base /\ relations[i].to = table
                       \/ relations[i].to = base /\ relations[i].from = table}
    IN  IF matches = {} THEN 0 ELSE CHOOSE i \in matches : \A j \in matches : i <= j

NoRelation(base, table) ==
    "No relation defined between " \o base \o " and " \o table

joinNode(base, table, type, relation) ==
    [type  |-> type,
     table |-> table,
     on    |-> [left  |-> base \o "." \o relation.foreignKey,
                right |-> table \o "." \o relation.references]]

\* Join with the push ahead of the `if (!relation) throw`
Join_pushFirst(b, table, type) ==
    LET r == findRelation(ast[b].table, table)
        relation == IF r = 0 THEN [foreignKey |-> "undefined", references |-> "undefined"]
                    ELSE relations[r]
    IN  /\ ast' = [ast EXCEPT ![b].joins =
                       Append(ast[b].joins, joinNode(ast[b].table, table, type, relation))]
        /\ IF r = 0
           THEN /\ err' = NoRelation(ast[b].table, table)
                /\ result' = NoResult
                /\ calls' = 0
                /\ UNCHANGED <<whereLog, ops, callLog, view>>
           ELSE /\ Logged(b, "join", <<table, type>>)
                /\ Returned
                /\ UNCHANGED whereLog

Join(b, table, type) ==
    LET r == findRelation(ast[b].table, table)
    IN  IF r = 0
        THEN /\ err' = NoRelation(ast[b].table, table)
             /\ result' = NoResult
             /\ calls' = 0
             /\ UNCHANGED <<ast, whereLog, ops, callLog, view>>
        ELSE /\ ast' = [ast EXCEPT ![b].joins =
                            Append(ast[b].joins,
                                   joinNode(ast[b].table, table, type, relations[r]))]
             /\ Logged(b, "join", <<table, type>>)
             /\ Returned
             /\ UNCHANGED whereLog

orderBy(b, column, direction) ==
    /\ ast' = [ast EXCEPT ![b].orderBy =
                   Append(ast[b].orderBy, [column |-> column, direction |-> direction])]
    /\ Logged(b, "orderBy", <<column, direction>>)
    /\ Returned
    /\ UNCHANGED whereLog

groupBy(b, columns) ==
    /\ ast' = [ast EXCEPT ![b].groupBy = <<columns>>]
    /\ Logged(b, "groupBy", columns)
    /\ Returned
    /\ UNCHANGED whereLog

\* limit that also starts the paging over: `this.ast.offset = undefined`
limit_resetsOffset(b, n) ==
    /\ ast' = [ast EXCEPT ![b].limit = <<n>>, ![b].offset = <<>>]
    /\ Logged(b, "limit", n)
    /\ Returned
    /\ UNCHANGED whereLog

limit(b, n) ==
    /\ ast' = [ast EXCEPT ![b].limit = <<n>>]
    /\ Logged(b, "limit", n)
    /\ Returned
    /\ UNCHANGED whereLog

offset(b, n) ==
    /\ ast' = [ast EXCEPT ![b].offset = <<n>>]
    /\ Logged(b, "offset", n)
    /\ Returned
    /\ UNCHANGED whereLog

\* query: subquery.ast stores the reference to the sub-builder's own QueryAST
With(b, name, subquery) ==
    /\ ast' = [ast EXCEPT ![b].with = Append(ast[b].with, [name |-> name, query |-> subquery])]
    /\ Logged(b, "with", <<name, subquery>>)
    /\ Returned
    /\ UNCHANGED whereLog

\* toSQL that first writes the default projection into the model:
\* `if (!this.ast.columns.length) this.ast.columns = ['*']`
toSQL_fillsColumns(b) ==
    LET compiler == NewSQLCompiler
        filled   == IF ast[b].columns = <<>> THEN [ast EXCEPT ![b].columns = <<"*">>] ELSE ast
        r        == compile(filled, compiler, b, Cardinality(Builders))
    IN  /\ result' = IF r.overflow
                     THEN [b |-> b, status |-> "RangeError", sql |-> <<>>, params |-> <<>>]
                     ELSE [b |-> b, status |-> "ok", sql |-> r.sql, params |-> r.params]
        /\ calls' = IF result.b = b /\ calls < 2 THEN calls + 1
                    ELSE IF result.b = b THEN calls ELSE 1
        /\ err' = IF r.overflow THEN "RangeError" ELSE ""
        /\ ast' = filled
        /\ UNCHANGED <<whereLog, ops, callLog, view>>

\* toSQL over a compiler that takes the predicates out of ast.where with shift()
toSQL_shift(b) ==
    LET compiler == NewSQLCompiler
        r        == compile(ast, compiler, b, Cardinality(Builders))
    IN  /\ result' = IF r.overflow
                     THEN [b |-> b, status |-> "RangeError", sql |-> <<>>, params |-> <<>>]
                     ELSE [b |-> b, status |-> "ok", sql |-> r.sql, params |-> r.params]
        /\ calls' = IF result.b = b /\ calls < 2 THEN calls + 1
                    ELSE IF result.b = b THEN calls ELSE 1
        /\ err' = IF r.overflow THEN "RangeError" ELSE ""
        /\ ast' = IF r.overflow THEN ast ELSE [ast EXCEPT ![b].where = <<>>]
        /\ UNCHANGED <<whereLog, ops, callLog, view>>

toSQL(b) ==
    LET compiler == NewSQLCompiler
        r        == compile(ast, compiler, b, Cardinality(Builders))
    IN  /\ result' = IF r.overflow
                     THEN [b |-> b, status |-> "RangeError", sql |-> <<>>, params |-> <<>>]
                     ELSE [b |-> b, status |-> "ok", sql |-> r.sql, params |-> r.params]
        /\ calls' = IF result.b = b /\ calls < 2 THEN calls + 1
                    ELSE IF result.b = b THEN calls ELSE 1
        /\ err' = IF r.overflow THEN "RangeError" ELSE ""
        /\ UNCHANGED <<ast, whereLog, ops, callLog, view>>

----------------------------------------------------------------------------
(* Inputs *)

ColumnLists == {<<>>, <<"id">>, <<"id", "name">>}

Conditions ==
    { eq("status", "active"),
      in("author_id", <<"1", "2", "3">>),
      or(<<eq("status", "active"), gt("age", "18")>>) }

WhereArgs ==
    {<<>>} \cup {<<c>> : c \in Conditions}
           \cup {<<eq("status", "active"), in("author_id", <<"1", "2", "3">>)>>}

JoinTables == {"users", "posts", "comments", "invalid"}

JoinTypes == {"INNER", "LEFT"}

OrderKeys == {<<"created_at", "DESC">>, <<"id", "ASC">>}

GroupLists == {<<>>, <<"author_id">>}

Limits == {10, 0, -1}

Offsets == {5, 0, -1}

CteNames == {"active_users", "recent"}

----------------------------------------------------------------------------
(* The builder program: any sequence of operations on the two builders *)

Init ==
    /\ ast = [b \in Builders |-> NewQueryBuilder(tableOf(b))]
    /\ result = NoResult
    /\ calls = 0
    /\ err = ""
    /\ whereLog = [b \in Builders |-> <<>>]
    /\ ops = 0
    /\ callLog = [b \in Builders |->
                     [select |-> <<>>, join |-> <<>>, orderBy |-> <<>>, groupBy |-> <<>>,
                      limit |-> <<>>, offset |-> <<>>, with |-> <<>>]]
    /\ view = NoView

Next ==
    \/ \E b \in Builders, columns \in ColumnLists : ops < MaxOps /\ select(b, columns)
    \/ \E b \in Builders, conditions \in WhereArgs : ops < MaxOps /\ where(b, conditions)
    \/ \E b \in Builders, table \in JoinTables, type \in JoinTypes :
           ops < MaxOps /\ Join(b, table, type)
    \/ \E b \in Builders, o \in OrderKeys : ops < MaxOps /\ orderBy(b, o[1], o[2])
    \/ \E b \in Builders, columns \in GroupLists : ops < MaxOps /\ groupBy(b, columns)
    \/ \E b \in Builders, n \in Limits : ops < MaxOps /\ limit(b, n)
    \/ \E b \in Builders, n \in Offsets : ops < MaxOps /\ offset(b, n)
    \/ \E b \in Builders, name \in CteNames, subquery \in Builders :
           ops < MaxOps /\ With(b, name, subquery)
    \/ \E b \in Builders : toSQL(b)

Spec == Init /\ [][Next]_vars

----------------------------------------------------------------------------
(* Predicate trees for the compiler: every where() argument list the condition
   factory can build with at most MaxNodes nodes in total and leaves among
   Leaves.  A shape is such a list with every leaf left open (Slot); a list is
   a shape with its slots filled, left to right, from Leaves. *)

Leaves ==
    { eq("status", "active"), eq("status", "pending"), gt("age", "18"),
      in("id", <<"1", "2">>), isNull("age") }

Slot == Cond("?", "?", Undefined)

\* Levels(n)[k], k <= n: the tree shapes with exactly k nodes and the non-empty
\* sequences of tree shapes with k nodes in total
RECURSIVE Levels(_)
Levels(n) ==
    IF n = 0 THEN <<>>
    ELSE LET prev  == Levels(n - 1)
             trees == IF n = 1 THEN {Slot}
                      ELSE {not(t) : t \in prev[n - 1].trees}
                           \cup {and(f) : f \in prev[n - 1].forests}
                           \cup {or(f) : f \in prev[n - 1].forests}
             forests == {<<t>> : t \in trees}
                        \cup UNION { {<<t>> \o f : t \in prev[k].trees,
                                                   f \in prev[n - k].forests} :
                                     k \in 1..(n - 1) }
         IN  Append(prev, [trees |-> trees, forests |-> forests])

WhereShapes ==
    LET levels == Levels(MaxNodes)
    IN  {<<>>} \cup UNION {levels[n].forests : n \in 1..MaxNodes}

RECURSIVE NumSlots(_)
NumSlots(nodes) ==
    IF nodes = <<>> THEN 0
    ELSE (IF Head(nodes) = Slot THEN 1 ELSE NumSlots(Head(nodes).children))
         + NumSlots(Tail(nodes))

\* the shape with slot number i + 1, i + 2, ... (depth-first, left to right)
\* replaced by fill[i + 1], fill[i + 2], ...
RECURSIVE FillSlots(_, _, _)
FillSlots(nodes, fill, i) ==
    IF nodes = <<>> THEN <<>>
    ELSE LET first == Head(nodes)
             used  == NumSlots(<<first>>)
             node  == IF first = Slot THEN fill[i + 1]
                      ELSE [first EXCEPT !.children = FillSlots(first.children, fill, i)]
         IN  <<node>> \o FillSlots(Tail(nodes), fill, i + used)

\* one where() call with any such argument list on a fresh builder, then toSQL()
NextWhere ==
    \/ /\ ops < 1
       /\ \E shape \in WhereShapes :
             \E fill \in [1..NumSlots(shape) -> Leaves] :
                where(2, FillSlots(shape, fill, 0))
    \/ calls < 1 /\ toSQL(2)

SpecWhere == Init /\ [][NextWhere]_vars

----------------------------------------------------------------------------
(* IN conditions: where() argument lists around in(field, values) for every
   value sequence of at most MaxItems elements *)

Values == {"1", "2", "3"}

ValueLists == UNION {[1..k -> Values] : k \in 0..MaxItems}

NextIn ==
    \/ /\ ops < 1
       /\ \E vs \in ValueLists, ws \in ValueLists :
             \E pre \in {<<>>, <<eq("status", "active")>>},
                post \in {<<>>, <<in("author_id", ws)>>, <<not(in("author_id", ws))>>,
                          <<or(<<isNull("age"), in("author_id", ws)>>)>>} :
                where(2, pre \o <<in("id", vs)>> \o post)
    \/ calls < 1 /\ toSQL(2)

SpecIn == Init /\ [][NextIn]_vars

\* getAST(): AST { return this.ast } hands out the builder's own QueryAST object
getAST(b) ==
    /\ view' = [view EXCEPT !.ref = b]
    /\ UNCHANGED <<ast, result, calls, err, whereLog, ops, callLog>>

\* the caller assigns a field of the returned structure: `ast.limit = n`.  The
\* structure is the object this.ast refers to, so the assignment lands there.
viewSetLimit(n) ==
    /\ view.ref # 0 /\ view.writes < MaxWrites
    /\ ast' = [ast EXCEPT ![view.ref].limit = <<n>>]
    /\ view' = [view EXCEPT !.writes = @ + 1]
    /\ UNCHANGED <<result, calls, err, whereLog, ops, callLog>>

\* the caller changes a nested array of the returned structure:
\* `ast.where.push(condition)`
viewPushWhere(condition) ==
    /\ view.ref # 0 /\ view.writes < MaxWrites
    /\ ast' = [ast EXCEPT ![view.ref].where = Append(@, condition)]
    /\ view' = [view EXCEPT !.writes = @ + 1]
    /\ UNCHANGED <<result, calls, err, whereLog, ops, callLog>>

\* a caller that inspects a builder: builder operations, getAST, writes through
\* the returned structure, toSQL
NextInspect ==
    \/ \E b \in Builders : ops < MaxOps /\ select(b, <<"id", "name">>)
    \/ \E b \in Builders : ops < MaxOps /\ where(b, <<eq("status", "active")>>)
    \/ \E b \in Builders, n \in Limits : ops < MaxOps /\ limit(b, n)
    \/ \E b \in Builders : getAST(b)
    \/ \E n \in Limits : viewSetLimit(n)
    \/ \E condition \in Conditions : viewPushWhere(condition)
    \/ \E b \in Builders : toSQL(b)

SpecInspect == Init /\ [][NextInspect]_vars

----------------------------------------------------------------------------
(* What the claims speak of *)

Ok == result.status = "ok"

\* the model the latest toSQL() compiled
Compiled == ast[result.b]

Upto(n) == [i \in 1..n |-> i]

IsPlaceholder(t) == t.ord > 0

\* the placeholder ordinals of a text, read left to right
Ordinals(sql) ==
    LET ps == SelectSeq(sql, IsPlaceholder) IN [i \in 1..Len(ps) |-> ps[i].ord]

\* the bound values of the leaves of a predicate list, depth-first, left to right
RECURSIVE LeafValues(_)
LeafValues(nodes) ==
    IF nodes = <<>> THEN <<>>
    ELSE LET n == Head(nodes)
             own == IF n.type # "condition" THEN LeafValues(n.children)
                    ELSE IF n.op \in {"IS NULL", "IS NOT NULL"} THEN <<>>
                    ELSE IF n.op = "IN" THEN n.value.items
                    ELSE <<n.value>>
         IN  own \o LeafValues(Tail(nodes))

\* the IN leaves of a predicate list in depth-first order, each with the number
\* of parameters bound before it when the list is compiled from `before`
RECURSIVE InLeaves(_, _)
InLeaves(nodes, before) ==
    IF nodes = <<>> THEN <<>>
    ELSE LET n == Head(nodes)
             own == IF n.type # "condition" THEN InLeaves(n.children, before)
                    ELSE IF n.op = "IN" THEN <<[node |-> n, before |-> before]>>
                    ELSE <<>>
         IN  own \o InLeaves(Tail(nodes), before + Len(LeafValues(<<n>>)))

Occurs(fragment, sql) ==
    \E p \in 0..(Len(sql) - Len(fragment)) : SubSeq(sql, p + 1, p + Len(fragment)) = fragment

\* the text with every placeholder written as a bare "$"
Skeleton(sql) ==
    Concat([i \in 1..Len(sql) |-> IF sql[i].ord > 0 THEN "$" ELSE sql[i].lit])

RECURSIVE JoinText(_, _)
JoinText(strs, sep) ==
    IF strs = <<>> THEN ""
    ELSE IF Len(strs) = 1 THEN strs[1]
    ELSE strs[1] \o sep \o JoinText(Tail(strs), sep)

\* the rendering rule for predicate nodes, placeholders as bare "$"
RECURSIVE PredicateText(_)
PredicateText(n) ==
    LET kids == [i \in 1..Len(n.children) |-> PredicateText(n.children[i])]
    IN  IF n.type = "AND" THEN "(" \o JoinText(kids, " AND ") \o ")"
        ELSE IF n.type = "OR" THEN "(" \o JoinText(kids, " OR ") \o ")"
        ELSE IF n.type = "NOT" THEN "NOT (" \o kids[1] \o ")"
        ELSE IF n.op \in {"IS NULL", "IS NOT NULL"} THEN n.field \o " " \o n.op
        ELSE IF n.op = "IN"
        THEN n.field \o " IN ("
                 \o JoinText([i \in 1..Len(n.value.items) |-> "$"], ", ") \o ")"
        ELSE n.field \o " " \o n.op \o " $"

\* a model with nothing but a table and WHERE predicates
OnlyWhere(q) ==
    /\ q.columns = <<>> /\ q.joins = <<>> /\ q.orderBy = <<>> /\ q.groupBy = <<>>
    /\ q.having = <<>> /\ q.limit = <<>> /\ q.offset = <<>> /\ q.with = <<>>

HasWhereText(sql) == \E i \in 1..Len(sql) : sql[i] = Lit(" WHERE ")

Subqueries(a) == {ast[a].with[i].query : i \in 1..Len(ast[a].with)}

\* the models a compile of a reads: a and its named sub-queries at any depth
RECURSIVE Closure(_)
Closure(S) ==
    LET T == S \cup UNION {Subqueries(a) : a \in S}
    IN  IF T = S THEN S ELSE Closure(T)

Reached(a) == Closure({a})

\* one continuous parameter stream: the parameters of each named sub-query in
\* declaration order, then the statement's own (a is on no cycle)
RECURSIVE StreamOf(_)
StreamOf(a) ==
    Flatten([i \in 1..Len(ast[a].with) |-> StreamOf(ast[a].with[i].query)])
        \o LeafValues(ast[a].where)

----------------------------------------------------------------------------
(* C1: for a query built with where(...) and no named sub-queries, the
   placeholders of the text returned by toSQL, read left to right, are exactly
   $1 .. $n with n the length of params, and params lists the values of the
   predicate leaves depth-first, left to right. *)
C1_PlaceholdersMatchParams ==
    (Ok /\ Compiled.with = <<>>) =>
        /\ Ordinals(result.sql) = Upto(Len(result.params))
        /\ result.params = LeafValues(Compiled.where)

C1_Witness ==
    /\ Ok /\ Compiled.with = <<>>
    /\ Len(Compiled.where) = 2
    /\ Compiled.where[1].type = "OR"
    /\ Compiled.where[2].type = "NOT"
    /\ Len(result.params) >= 4

(* C7: an IN condition over k values compiles to `<field> IN (...)` with
   exactly k consecutively numbered placeholders, and adds its k elements, in
   order, to params; the sequence itself is never one parameter. *)
C7_InBindsElements ==
    (Ok /\ Compiled.with = <<>>) =>
        LET leaves == InLeaves(Compiled.where, 0)
        IN  /\ \A i \in 1..Len(leaves) :
                  LET n == leaves[i].node
                      k == Len(n.value.items)
                      b == leaves[i].before
                  IN  /\ Occurs(<<Lit(n.field), Lit(" IN (")>>
                                   \o join([j \in 1..k |-> <<Placeholder(b + j)>>], ", ")
                                   \o <<Lit(")")>>,
                                result.sql)
                      /\ b + k <= Len(result.params)
                      /\ SubSeq(result.params, b + 1, b + k) = n.value.items
            /\ \A i \in 1..Len(result.params) : result.params[i].kind # "array"

C7_Witness ==
    /\ Ok
    /\ Len(Compiled.where) = 3
    /\ Compiled.where[2] = in("id", <<"3", "1">>)
    /\ result.params = <<Scalar("active"), Scalar("3"), Scalar("1"), Scalar("2")>>

(* C8: every And/Or node is rendered as a parenthesized group `(c1 AND c2 ...)`
   / `(c1 OR c2 ...)` and Not as `NOT (<child>)` at any depth, while the
   top-level WHERE list is joined with " AND " without enclosing parentheses;
   Or(eq(status,'active'), And(eq(status,'pending'), gt(age,18))) compiles to
   `(status = $1 OR (status = $2 AND age > $3))` with params
   ["active","pending",18]. *)
C8_Example == or(<<eq("status", "active"), and(<<eq("status", "pending"), gt("age", "18")>>)>>)

C8_Parenthesization ==
    (Ok /\ OnlyWhere(Compiled)) =>
        /\ Skeleton(result.sql) =
               "SELECT * FROM " \o Compiled.table
                   \o (IF Compiled.where = <<>> THEN ""
                       ELSE " WHERE "
                            \o JoinText([i \in 1..Len(Compiled.where) |->
                                            PredicateText(Compiled.where[i])], " AND "))
        /\ Compiled.where = <<C8_Example>> =>
               /\ Text(result.sql) =
                      "SELECT * FROM users WHERE (status = $1 OR (status = $2 AND age > $3))"
               /\ result.params = <<Scalar("active"), Scalar("pending"), Scalar("18")>>

C8_Witness == Ok /\ Compiled.where = <<C8_Example>>

(* C2: with two or more named sub-queries, one toSQL call produces a single
   continuous parameter stream: params is the concatenation of every
   sub-query's parameters in declaration order followed by the outer
   statement's, and no placeholder ordinal appears twice or is skipped. *)
C2_SingleParameterStream ==
    (Ok /\ Len(Compiled.with) >= 2) =>
        /\ result.params = StreamOf(result.b)
        /\ Ordinals(result.sql) = Upto(Len(result.params))

(* C3: with exactly one named sub-query that has no sub-queries of its own,
   params is the sub-query's parameters followed by the outer statement's, and
   the outer placeholders continue right after the sub-query's last ordinal:
   a sub-query with one parameter uses $1 and an outer IN over three values
   uses $2, $3, $4. *)
C3_Outer == in("author_id", <<"1", "2", "3">>)

C3_Sub == eq("status", "active")

C3_ExampleState(outer, sub) ==
    /\ ast[outer] = [NewQueryBuilder(ast[outer].table) EXCEPT
                        !.with = <<[name |-> "active_users", query |-> sub]>>,
                        !.where = <<C3_Outer>>]
    /\ ast[sub] = [NewQueryBuilder(ast[sub].table) EXCEPT !.where = <<C3_Sub>>]

C3_OneSubqueryStream ==
    (Ok /\ Len(Compiled.with) = 1 /\ ast[Compiled.with[1].query].with = <<>>) =>
        LET sub == Compiled.with[1].query
        IN  /\ result.params = LeafValues(ast[sub].where) \o LeafValues(Compiled.where)
            /\ Ordinals(result.sql) = Upto(Len(result.params))
            /\ (result.b = 1 /\ C3_ExampleState(1, 2)) =>
                   /\ Text(result.sql) =
                          "WITH active_users AS (SELECT * FROM users WHERE status = $1) "
                              \o "SELECT * FROM posts WHERE author_id IN ($2, $3, $4)"
                   /\ result.params =
                          <<Scalar("active"), Scalar("1"), Scalar("2"), Scalar("3")>>

C3_Witness == Ok /\ result.b = 1 /\ C3_ExampleState(1, 2)

(* C4: join(table) on a builder whose base table has no declared relation
   with table in either direction throws at the join call and leaves every
   field of every Query Model as it was before the call. *)
IsNoRelation(e) == e \notin {"", "RangeError"}

C4_FailedJoinKeepsModel == [][IsNoRelation(err') => ast' = ast]_vars

C4_Witness ==
    /\ err = NoRelation("posts", "invalid")
    /\ Len(ast[1].joins) = 1
    /\ Len(ast[1].where) > 0

(* C5: for every successful join the recorded on-clause pairs the relation's
   foreign-key column with the relation's from-table and the referenced column
   with the relation's to-table, also when the relation was matched in the
   reverse direction {from: joined table, to: base table}. *)
C5_OnClauseSides ==
    \A b \in Builders : \A i \in 1..Len(ast[b].joins) :
        LET j == ast[b].joins[i]
            r == relations[findRelation(ast[b].table, j.table)]
        IN  {j.on.left, j.on.right} =
                {r.from \o "." \o r.foreignKey, r.to \o "." \o r.references}

(* C6: toSQL called twice on a builder with no builder operation in between
   returns identical sql and identical params, for every reachable Query Model,
   those with named sub-queries included. *)
C6_RecompileIdentical ==
    [][(calls >= 1 /\ calls' >= 1 /\ result'.b = result.b) => result' = result]_vars

C6_Witness == Ok /\ calls = 2 /\ Len(Compiled.with) > 0 /\ Len(result.params) > 0

(* C9 as stated: compiling a Query Model whose WHERE list is empty never emits
   the literal text WHERE anywhere in the returned sql. *)
C9_NoWhereText_Stated == (Ok /\ Compiled.where = <<>>) => ~HasWhereText(result.sql)

(* C9: compiling a Query Model whose WHERE list is empty, and whose named
   sub-queries at every depth have empty WHERE lists too, never emits the
   literal text WHERE anywhere in the returned sql. *)
C9_NoWhereText ==
    (Ok /\ \A a \in Reached(result.b) : ast[a].where = <<>>) => ~HasWhereText(result.sql)

C9_Witness ==
    /\ Ok
    /\ whereLog[result.b] = << <<>> >>
    /\ Len(Compiled.with) > 0
    /\ \A a \in Reached(result.b) : ast[a].where = <<>>

(* C10: where is additive and order-preserving: after any sequence of builder
   operations the WHERE list of a model is the concatenation, in call order,
   of the arguments of every where call on its builder, so where(a).where(b)
   leaves the model where(a, b) leaves; no other operation removes or reorders
   WHERE entries. *)
C10_WhereAdditive == \A b \in Builders : ast[b].where = Flatten(whereLog[b])

C10_Witness ==
    \E b \in Builders :
        /\ Len(whereLog[b]) = 2
        /\ whereLog[b][1] # <<>> /\ whereLog[b][2] # <<>>
        /\ whereLog[b][1] # whereLog[b][2]
        /\ Len(ast[b].orderBy) = 1

\* the arguments of the last call in a log
Last(log) == log[Len(log)]

\* the WITH clause at the head of the text of builder b, compiled with the
\* program's own sub-query compilation: a model that keeps only b's CTE list
\* compiles to that clause followed by the four tokens of `SELECT * FROM <table>`
WithTokens(b) ==
    LET only == [NewQueryBuilder(ast[b].table) EXCEPT !.with = ast[b].with]
        r    == compile([ast EXCEPT ![b] = only], NewSQLCompiler, b, Cardinality(Builders))
    IN  SubSeq(r.sql, 1, Len(r.sql) - 4)

\* the statement of the compiled builder itself: the text after its WITH clause
OuterTokens == SubSeq(result.sql, Len(WithTokens(result.b)) + 1, Len(result.sql))

\* the projection the last select call on builder b asked for
LastSelected(b) ==
    IF callLog[b].select = <<>> THEN <<>> ELSE Last(callLog[b].select)

\* `SELECT <columns, comma-separated> FROM <table>`, `*` for no columns
StatedSelect(columns, table) ==
    <<Lit("SELECT ")>>
        \o (IF columns = <<>> THEN <<Lit("*")>> ELSE joinNames(columns, ", "))
        \o <<Lit(" FROM "), Lit(table)>>

(* C11: the compiled projection reflects only the most recent select call:
   the statement reads SELECT <columns of the last select call, comma-separated>
   FROM <table>, and SELECT * FROM <table> when select was never called or the
   last select call passed no columns; columns of earlier select calls never
   appear. *)
C11_LastSelectOnly ==
    Ok => LET stated == StatedSelect(LastSelected(result.b), tableOf(result.b))
          IN  /\ Len(OuterTokens) >= Len(stated)
              /\ SubSeq(OuterTokens, 1, Len(stated)) = stated

C11_Witness ==
    /\ Ok
    /\ Len(callLog[result.b].select) = 2
    /\ callLog[result.b].select[1] = <<"id", "name">>
    /\ callLog[result.b].select[2] = <<"id">>
    /\ Text(result.sql) = "SELECT id FROM " \o tableOf(result.b)

\* the model the logged calls on builder b describe, each kind of call replayed
\* on its own: the interleaving of calls of different kinds is not recorded
Replayed(b) ==
    LET L == callLog[b]
    IN  [type    |-> "SELECT",
         table   |-> tableOf(b),
         columns |-> LastSelected(b),
         where   |-> Flatten(whereLog[b]),
         joins   |-> [i \in 1..Len(L.join) |->
                         joinNode(tableOf(b), L.join[i][1], L.join[i][2],
                                  relations[findRelation(tableOf(b), L.join[i][1])])],
         orderBy |-> [i \in 1..Len(L.orderBy) |->
                         [column |-> L.orderBy[i][1], direction |-> L.orderBy[i][2]]],
         groupBy |-> IF L.groupBy = <<>> THEN <<>> ELSE <<Last(L.groupBy)>>,
         having  |-> <<>>,
         limit   |-> IF L.limit = <<>> THEN <<>> ELSE <<Last(L.limit)>>,
         offset  |-> IF L.offset = <<>> THEN <<>> ELSE <<Last(L.offset)>>,
         with    |-> [i \in 1..Len(L.with) |->
                         [name |-> L.with[i][1], query |-> L.with[i][2]]]]

\* the place of a clause keyword in the fixed clause order, 0 for any other token
ClauseRank(t) ==
    IF t.ord # 0 THEN 0
    ELSE CASE t.lit = "WITH "      -> 1
           [] t.lit = "SELECT "    -> 2
           [] t.lit = " JOIN "     -> 3
           [] t.lit = " WHERE "    -> 4
           [] t.lit = " GROUP BY " -> 5
           [] t.lit = " HAVING "   -> 6
           [] t.lit = " ORDER BY " -> 7
           [] t.lit = " LIMIT "    -> 8
           [] t.lit = " OFFSET "   -> 9
           [] OTHER                -> 0

\* the clause keywords of the compiled statement in text order: the WITH that
\* opens the text, then the keywords of the statement after the WITH clause
ClauseRanks ==
    LET head  == IF WithTokens(result.b) = <<>> THEN <<>> ELSE <<result.sql[1]>>
        words == SelectSeq(head \o OuterTokens, LAMBDA t : ClauseRank(t) > 0)
    IN  [i \in 1..Len(words) |-> ClauseRank(words[i])]

(* C12: the compiled statement depends only on the final model, never on how
   calls of different kinds were interleaved: every model is the one its
   per-kind call logs describe, the result is the compilation of those models,
   and the clauses appear in the order WITH, SELECT ... FROM, JOINs, WHERE,
   GROUP BY, HAVING, ORDER BY, LIMIT, OFFSET (only JOIN may repeat). *)
C12_OrderOfCallsIrrelevant ==
    /\ \A b \in Builders : ast[b] = Replayed(b)
    /\ Ok =>
         LET r == compile([b \in Builders |-> Replayed(b)], NewSQLCompiler, result.b,
                          Cardinality(Builders))
             k == ClauseRanks
         IN  /\ result.sql = r.sql /\ result.params = r.params
             /\ \A i \in 1..(Len(k) - 1) :
                    k[i] < k[i + 1] \/ (k[i] = 3 /\ k[i + 1] = 3)
             /\ (ast[result.b].with # <<>>) <=> (k[1] = 1)
             /\ \E i \in 1..Len(k) : k[i] = 2

C12_Witness ==
    /\ Ok /\ result.b = 2
    /\ whereLog[2] = << <<eq("status", "active")>> >>
    /\ callLog[2].orderBy = << <<"created_at", "DESC">> >>
    /\ callLog[2].limit = <<10>>
    /\ Text(result.sql)
           = "SELECT * FROM users WHERE status = $1 ORDER BY created_at DESC LIMIT 10"
    /\ result.params = LeafValues(<<eq("status", "active")>>)

\* what toSQL() of builder b gives over a heap of models
CompileOf(heap, b) ==
    LET r == compile(heap, NewSQLCompiler, b, Cardinality(Builders))
    IN  [sql |-> r.sql, params |-> r.params, overflow |-> r.overflow]

(* C13: with(name, subBuilder) binds a snapshot of the sub-builder's model: no
   later step changes a model that is bound as a named sub-query, and a step
   that leaves a builder's own model alone leaves what it compiles to alone. *)
C13_WithBindsSnapshot ==
    [][\A b \in Builders :
          /\ \A i \in 1..Len(ast[b].with) :
                 ast'[ast[b].with[i].query] = ast[ast[b].with[i].query]
          /\ ast'[b] = ast[b] => CompileOf(ast', b) = CompileOf(ast, b)]_vars

(* C14: the structure getAST returned is a deep copy or immutable view: a write
   through it never changes a builder's model, and a step that is neither a
   getAST call nor such a write never changes the content of the structure that
   was returned. *)
C14_InspectIsolated ==
    [][/\ view'.writes > view.writes => ast' = ast
       /\ (view.ref # 0 /\ view' = view) => ast'[view.ref] = ast[view.ref]]_vars

(* C15: toSQL terminates for every reachable model: no builder's model is, or
   transitively contains, its own enclosing model as a named sub-query, and no
   toSQL call ends in the stack overflow of an unbounded recursion. *)
C15_ToSQLTerminates ==
    /\ \A b \in Builders : \A s \in Subqueries(b) : b \notin Reached(s)
    /\ result.status # "RangeError"

\* ` LIMIT <n>` then ` OFFSET <n>` for the last logged calls, nothing for none
StatedPaging(b) ==
    (IF callLog[b].limit = <<>> THEN <<>>
     ELSE <<Lit(" LIMIT "), Lit(ToString(Last(callLog[b].limit)))>>)
    \o (IF callLog[b].offset = <<>> THEN <<>>
        ELSE <<Lit(" OFFSET "), Lit(ToString(Last(callLog[b].offset)))>>)

(* C16: limit(n) and offset(n) take any integer, zero and negative included,
   and keep the last call's value: the compiled text is the text of the same
   model without limit and offset, followed by the literal LIMIT <n> when limit
   was ever called and then the literal OFFSET <n> when offset was ever called,
   and params is the params of that model: no placeholder, no parameter. *)
C16_LiteralPaging ==
    Ok => LET b    == result.b
              bare == CompileOf([ast EXCEPT ![b].limit = <<>>, ![b].offset = <<>>], b)
          IN  /\ result.sql = bare.sql \o StatedPaging(b)
              /\ result.params = bare.params
              /\ \A i \in 1..Len(StatedPaging(b)) : ~IsPlaceholder(StatedPaging(b)[i])

C16_Witness ==
    /\ Ok /\ result.b = 2
    /\ callLog[2].limit = <<10, 0>>
    /\ callLog[2].offset = <<-1>>
    /\ Text(result.sql) = "SELECT * FROM users LIMIT 0 OFFSET -1"
    /\ result.params = <<>>

\* a text with every placeholder numbered 1
Unnumbered(sql) ==
    [i \in 1..Len(sql) |-> IF IsPlaceholder(sql[i]) THEN Placeholder(1) ELSE sql[i]]

\* the fragment a predicate node compiles to on its own
Fragment(node) == compileWhereNode(NewSQLCompiler, node).sql

(* C17: toSQL is read-only: a toSQL step leaves every model as it was (the
   builder's own, every other builder's, the bound sub-queries', with their
   predicate nodes), and with them what every builder compiles to; its text
   holds, up to placeholder numbers, the fragment each predicate node of its
   WHERE list compiles to on its own, so a node shared by several builders
   reads the same in each. *)
C17_ToSQLReadOnly ==
    [][(calls' > 0 /\ <<result, calls>>' # <<result, calls>>) =>
          /\ ast' = ast
          /\ result'.status = "ok" =>
                 LET text == Unnumbered(result'.sql)
                     list == ast[result'.b].where
                 IN  \A i \in 1..Len(list) :
                         LET fragment == Unnumbered(Fragment(list[i]))
                         IN  \E p \in 1..(Len(text) - Len(fragment) + 1) :
                                 /\ text[p] = fragment[1]
                                 /\ SubSeq(text, p, p + Len(fragment) - 1) = fragment]_vars

C17_Witness ==
    /\ Ok /\ result.b = 1 /\ calls = 1
    /\ ast[1].where = <<eq("status", "active"), in("author_id", <<"1", "2", "3">>)>>
    /\ ast[2].where = <<in("author_id", <<"1", "2", "3">>)>>
    /\ ast[1].with = <<[name |-> "recent", query |-> 2]>>

====
